---- MODULE Spec2Model ----
(***************************************************************************)
(* Model of the moving-dot performance test store: the DotDataBuffer       *)
(* structure-of-arrays class, the per-object (legacy) dot functions, and    *)
(* the zustand store that drives both.                                      *)
(*                                                                          *)
(* Numbers.  A JavaScript number is modelled as an integer (a fixed-point   *)
(* value); all arithmetic on the small integers used here is exact, as      *)
(* double arithmetic is on them.  A Float32Array element keeps only         *)
(* MantBits significant bits (24 in IEEE binary32, scaled down here so     *)
(* that rounding happens inside the modelled coordinate range), a          *)
(* Uint8Array element keeps the value modulo 256.                           *)
(***************************************************************************)
EXTENDS Integers, Sequences, FiniteSets, TLC

VARIABLES
    dots,                   \* MovingDot[]: the per-object population
    visibleDots,            \* MovingDot[]: cached viewport-culled dots
    dotBuffer,              \* DotDataBuffer | null
    useHighPerformanceMode, \* boolean
    isRunning,              \* boolean
    config,                 \* TestConfig
    bounds,                 \* ViewportBounds: the world (bounce) bounds
    lastViewportBounds,     \* ViewportBounds | null
    totalDots,              \* metric
    visibleDotsCount,       \* metric
    cullingEnabled,         \* metric
    ticks,                  \* history: updateDots calls since the last start
    hist,                   \* history: per entity, the positions it has had, latest first
    steady,                 \* history: trails enabled at start, trail config untouched since
    lastOp,                 \* history: the store action that produced this state
    layerType,              \* usePerformanceTestLayers: config.layerType of its props
    iconLayer,              \* usePerformanceTestLayers: useState<Layer | null>
    iconPromises,           \* createHighPerformanceIconLayer promises not yet settled
    iconEffect              \* the icon layer effect: the dependencies of its last run;
                            \* history: how often it ran, how many starts it saw

vars == <<dots, visibleDots, dotBuffer, useHighPerformanceMode, isRunning, config,
          bounds, lastViewportBounds, totalDots, visibleDotsCount, cullingEnabled,
          ticks, hist, steady, lastOp, layerType, iconLayer, iconPromises, iconEffect>>

\* The state of the usePerformanceTestLayers hook, which no store action touches.
hookVars == <<layerType, iconLayer, iconPromises, iconEffect>>

(***************************************************************************)
(* Bounds of the model.                                                     *)
(***************************************************************************)
MaxDots == 3        \* largest population size a configuration can ask for
MaxTicks == 3       \* updateDots calls explored per run
MantBits == 3       \* significant bits of a modelled Float32Array element
RandomSteps == 4    \* Math.random() yields k / RandomSteps, k in 0..RandomSteps-1

NULL == [null |-> TRUE]

(***************************************************************************)
(* Number helpers.                                                          *)
(***************************************************************************)
Abs(x) == IF x < 0 THEN -x ELSE x

Min(a, b) == IF a < b THEN a ELSE b

Max(a, b) == IF a > b THEN a ELSE b

RECURSIVE Pow2(_)
Pow2(n) == IF n = 0 THEN 1 ELSE 2 * Pow2(n - 1)

\* The spacing of representable values around magnitude a: 1 below 2^MantBits,
\* doubling with every further binade.
RECURSIVE Ulp(_, _)
Ulp(a, s) == IF a < s * Pow2(MantBits) THEN s ELSE Ulp(a, 2 * s)

\* Round to the nearest representable value, ties to the even significand.
Fround(x) ==
    LET a == Abs(x)
        s == Ulp(a, 1)
        q == a \div s
        r == a % s
        m == IF 2 * r < s THEN q
             ELSE IF 2 * r > s THEN q + 1
             ELSE IF q % 2 = 0 THEN q ELSE q + 1
    IN  IF x < 0 THEN -(m * s) ELSE m * s

\* Conversion of a number to a Uint8Array element.
ToUint8(x) == x % 256

\* Typed arrays are 0-indexed; an out-of-range write is ignored.
At(arr, i) == arr[i + 1]

Put(arr, i, v) == IF (i + 1) \in DOMAIN arr THEN [arr EXCEPT ![i + 1] = v] ELSE arr

PutF32(arr, i, v) == Put(arr, i, Fround(v))

PutU8(arr, i, v) == Put(arr, i, ToUint8(v))

Zeros(n) == [k \in 1..n |-> 0]

(***************************************************************************)
(* class DotDataBuffer                                                      *)
(***************************************************************************)
FIELDS_PER_DOT == 8

TRAIL_FIELDS_PER_DOT == 2

NewDotDataBuffer(maxDots, maxTrailLength) ==
    [ count          |-> 0,
      maxTrailLength |-> maxTrailLength,
      data           |-> Zeros(maxDots * FIELDS_PER_DOT),
      trailData      |-> Zeros(maxDots * maxTrailLength * TRAIL_FIELDS_PER_DOT),
      visibilityMask |-> Zeros(maxDots) ]

\* getDot: the loop over the trail slots, skipping the slots that read (0, 0).
RECURSIVE getDotTrail(_, _, _, _)
getDotTrail(buf, trailOffset, i, trail) ==
    IF i >= buf.maxTrailLength THEN trail
    ELSE LET tOffset == trailOffset + i * 2
             lng == At(buf.trailData, tOffset)
             lat == At(buf.trailData, tOffset + 1)
         IN  getDotTrail(buf, trailOffset, i + 1,
                         IF lng # 0 \/ lat # 0 THEN Append(trail, <<lng, lat>>)
                         ELSE trail)

getDot(buf, index) ==
    LET offset == index * FIELDS_PER_DOT
        trailOffset == index * buf.maxTrailLength * TRAIL_FIELDS_PER_DOT
    IN  [ id       |-> index,
          position |-> <<At(buf.data, offset), At(buf.data, offset + 1)>>,
          velocity |-> <<At(buf.data, offset + 2), At(buf.data, offset + 3)>>,
          color    |-> <<At(buf.data, offset + 4), At(buf.data, offset + 5),
                         At(buf.data, offset + 6)>>,
          size     |-> At(buf.data, offset + 7),
          trail    |-> getDotTrail(buf, trailOffset, 0, <<>>) ]

\* setDotTrail that leaves the slots past the dot's trail as they were.
RECURSIVE setDotTrail_noPadding(_, _, _, _, _)
setDotTrail_noPadding(trailData, maxTrailLength, trailOffset, dot, i) ==
    IF i >= maxTrailLength \/ i >= Len(dot.trail) THEN trailData
    ELSE LET tOffset == trailOffset + i * 2
         IN  setDotTrail_noPadding(
                 PutF32(PutF32(trailData, tOffset, dot.trail[i + 1][1]),
                        tOffset + 1, dot.trail[i + 1][2]),
                 maxTrailLength, trailOffset, dot, i + 1)

\* setDot: the loop writing the trail slots, zero-padding past the dot's trail.
RECURSIVE setDotTrail(_, _, _, _, _)
setDotTrail(trailData, maxTrailLength, trailOffset, dot, i) ==
    IF i >= maxTrailLength THEN trailData
    ELSE LET tOffset == trailOffset + i * 2
             t1 == IF i < Len(dot.trail)
                   THEN PutF32(PutF32(trailData, tOffset, dot.trail[i + 1][1]),
                               tOffset + 1, dot.trail[i + 1][2])
                   ELSE PutF32(PutF32(trailData, tOffset, 0), tOffset + 1, 0)
         IN  setDotTrail(t1, maxTrailLength, trailOffset, dot, i + 1)

setDot(buf, index, dot) ==
    LET offset == index * FIELDS_PER_DOT
        trailOffset == index * buf.maxTrailLength * TRAIL_FIELDS_PER_DOT
        d0 == PutF32(buf.data, offset, dot.position[1])
        d1 == PutF32(d0, offset + 1, dot.position[2])
        d2 == PutF32(d1, offset + 2, dot.velocity[1])
        d3 == PutF32(d2, offset + 3, dot.velocity[2])
        d4 == PutF32(d3, offset + 4, dot.color[1])
        d5 == PutF32(d4, offset + 5, dot.color[2])
        d6 == PutF32(d5, offset + 6, dot.color[3])
        d7 == PutF32(d6, offset + 7, dot.size)
    IN  [buf EXCEPT !.data = d7,
                    !.trailData = setDotTrail(buf.trailData, buf.maxTrailLength,
                                              trailOffset, dot, 0)]

\* getPositions / getColors / getSizes: one entry per row 0..count-1.
RECURSIVE getPositionsLoop(_, _, _)
getPositionsLoop(buf, positions, i) ==
    IF i >= buf.count THEN positions
    ELSE LET offset == i * FIELDS_PER_DOT
             p0 == PutF32(positions, i * 3, At(buf.data, offset))
             p1 == PutF32(p0, i * 3 + 1, At(buf.data, offset + 1))
             p2 == PutF32(p1, i * 3 + 2, 0)
         IN  getPositionsLoop(buf, p2, i + 1)

getPositions(buf) == getPositionsLoop(buf, Zeros(buf.count * 3), 0)

RECURSIVE getColorsLoop(_, _, _)
getColorsLoop(buf, colors, i) ==
    IF i >= buf.count THEN colors
    ELSE LET offset == i * FIELDS_PER_DOT
             c0 == PutU8(colors, i * 4, At(buf.data, offset + 4))
             c1 == PutU8(c0, i * 4 + 1, At(buf.data, offset + 5))
             c2 == PutU8(c1, i * 4 + 2, At(buf.data, offset + 6))
             c3 == PutU8(c2, i * 4 + 3, 255)
         IN  getColorsLoop(buf, c3, i + 1)

getColors(buf) == getColorsLoop(buf, Zeros(buf.count * 4), 0)

\* getSizesLoop reading the field before the size (the blue channel).
RECURSIVE getSizesLoop_wrongField(_, _, _)
getSizesLoop_wrongField(buf, sizes, i) ==
    IF i >= buf.count THEN sizes
    ELSE getSizesLoop_wrongField(
             buf, PutF32(sizes, i, At(buf.data, i * FIELDS_PER_DOT + 6)), i + 1)

RECURSIVE getSizesLoop(_, _, _)
getSizesLoop(buf, sizes, i) ==
    IF i >= buf.count THEN sizes
    ELSE getSizesLoop(buf, PutF32(sizes, i, At(buf.data, i * FIELDS_PER_DOT + 7)), i + 1)

getSizes(buf) == getSizesLoop(buf, Zeros(buf.count), 0)

\* bounce with the clamp forgotten.
bounce_noClamp(p, v, lo, hi) ==
    IF p <= lo \/ p >= hi THEN <<p, -v>> ELSE <<p, v>>

\* bounce that reflects only strictly beyond the bound.
bounce_strict(p, v, lo, hi) ==
    IF p < lo \/ p > hi
    THEN <<Max(lo, Min(hi, p)), -v>>
    ELSE <<p, v>>

\* bounce that stops the entity on the axis it was reflected on.
bounce_absorbs(p, v, lo, hi) ==
    IF p <= lo \/ p >= hi
    THEN <<Max(lo, Min(hi, p)), 0>>
    ELSE <<p, v>>

\* The bounce of one axis, as both updateDotPosition variants write it out for
\* lng and for lat: p is the tentative coordinate, the result is <<p', v'>>.
bounce(p, v, lo, hi) ==
    IF p <= lo \/ p >= hi
    THEN <<Max(lo, Min(hi, p)), -v>>
    ELSE <<p, v>>

\* updateDotPosition (buffer): the loop moving the trail points one slot back.
RECURSIVE shiftTrail(_, _, _)
shiftTrail(trailData, trailOffset, i) ==
    IF i <= 0 THEN trailData
    ELSE LET currentOffset == trailOffset + i * 2
             prevOffset == trailOffset + (i - 1) * 2
             t0 == PutF32(trailData, currentOffset, At(trailData, prevOffset))
             t1 == PutF32(t0, currentOffset + 1, At(trailData, prevOffset + 1))
         IN  shiftTrail(t1, trailOffset, i - 1)

DotDataBuffer_updateDotPosition(buf, index, b, maxSpeed) ==
    LET offset == index * FIELDS_PER_DOT
        trailOffset == index * buf.maxTrailLength * TRAIL_FIELDS_PER_DOT
        x == bounce(At(buf.data, offset) + At(buf.data, offset + 2),
                    At(buf.data, offset + 2), b.minLng, b.maxLng)
        y == bounce(At(buf.data, offset + 1) + At(buf.data, offset + 3),
                    At(buf.data, offset + 3), b.minLat, b.maxLat)
        d0 == PutF32(buf.data, offset, x[1])
        d1 == PutF32(d0, offset + 1, y[1])
        d2 == PutF32(d1, offset + 2, x[2])
        d3 == PutF32(d2, offset + 3, y[2])
        t0 == shiftTrail(buf.trailData, trailOffset, buf.maxTrailLength - 1)
        t1 == PutF32(t0, trailOffset, x[1])
        t2 == PutF32(t1, trailOffset + 1, y[1])
    IN  [buf EXCEPT !.data = d3, !.trailData = t2]

\* inRect with the upper longitude edge left out.
inRect_openEdge(lng, lat, minLng, maxLng, minLat, maxLat) ==
    lng >= minLng /\ lng < maxLng /\ lat >= minLat /\ lat <= maxLat

\* The inclusive rectangle test of updateVisibilityMask and of the per-object
\* culling loop.
inRect(lng, lat, minLng, maxLng, minLat, maxLat) ==
    lng >= minLng /\ lng <= maxLng /\ lat >= minLat /\ lat <= maxLat

\* updateVisibilityMask: the loop over the active rows; st is
\* [mask, visibleCount].
RECURSIVE updateVisibilityMaskLoop(_, _, _, _, _, _, _)
updateVisibilityMaskLoop(buf, minLng, maxLng, minLat, maxLat, st, i) ==
    IF i >= buf.count THEN st
    ELSE LET offset == i * FIELDS_PER_DOT
             lng == At(buf.data, offset)
             lat == At(buf.data, offset + 1)
             st1 == IF inRect(lng, lat, minLng, maxLng, minLat, maxLat)
                    THEN [mask |-> PutU8(st.mask, i, 1),
                          visibleCount |-> st.visibleCount + 1]
                    ELSE [mask |-> PutU8(st.mask, i, 0),
                          visibleCount |-> st.visibleCount]
         IN  updateVisibilityMaskLoop(buf, minLng, maxLng, minLat, maxLat, st1, i + 1)

\* The result is [buf, visibleCount]: the buffer with its mask rewritten, and
\* the returned number.
updateVisibilityMask(buf, viewportBounds, buffer) ==
    LET minLng == viewportBounds.minLng - buffer
        maxLng == viewportBounds.maxLng + buffer
        minLat == viewportBounds.minLat - buffer
        maxLat == viewportBounds.maxLat + buffer
        st == updateVisibilityMaskLoop(buf, minLng, maxLng, minLat, maxLat,
                  [mask |-> buf.visibilityMask, visibleCount |-> 0], 0)
    IN  [buf |-> [buf EXCEPT !.visibilityMask = st.mask],
         visibleCount |-> st.visibleCount]

\* getVisiblePositions / getVisibleColors / getVisibleSizes: the counting pass,
\* then the filling pass with its write index.
RECURSIVE countVisible(_, _, _)
countVisible(buf, visibleCount, i) ==
    IF i >= buf.count THEN visibleCount
    ELSE countVisible(buf,
                      IF At(buf.visibilityMask, i) # 0 THEN visibleCount + 1
                      ELSE visibleCount,
                      i + 1)

RECURSIVE getVisiblePositionsLoop(_, _, _, _)
getVisiblePositionsLoop(buf, positions, writeIndex, i) ==
    IF i >= buf.count THEN positions
    ELSE IF At(buf.visibilityMask, i) # 0
         THEN LET offset == i * FIELDS_PER_DOT
                  p0 == PutF32(positions, writeIndex * 3, At(buf.data, offset))
                  p1 == PutF32(p0, writeIndex * 3 + 1, At(buf.data, offset + 1))
                  p2 == PutF32(p1, writeIndex * 3 + 2, 0)
              IN  getVisiblePositionsLoop(buf, p2, writeIndex + 1, i + 1)
         ELSE getVisiblePositionsLoop(buf, positions, writeIndex, i + 1)

getVisiblePositions(buf) ==
    getVisiblePositionsLoop(buf, Zeros(countVisible(buf, 0, 0) * 3), 0, 0)

RECURSIVE getVisibleColorsLoop(_, _, _, _)
getVisibleColorsLoop(buf, colors, writeIndex, i) ==
    IF i >= buf.count THEN colors
    ELSE IF At(buf.visibilityMask, i) # 0
         THEN LET offset == i * FIELDS_PER_DOT
                  c0 == PutU8(colors, writeIndex * 4, At(buf.data, offset + 4))
                  c1 == PutU8(c0, writeIndex * 4 + 1, At(buf.data, offset + 5))
                  c2 == PutU8(c1, writeIndex * 4 + 2, At(buf.data, offset + 6))
                  c3 == PutU8(c2, writeIndex * 4 + 3, 255)
              IN  getVisibleColorsLoop(buf, c3, writeIndex + 1, i + 1)
         ELSE getVisibleColorsLoop(buf, colors, writeIndex, i + 1)

getVisibleColors(buf) ==
    getVisibleColorsLoop(buf, Zeros(countVisible(buf, 0, 0) * 4), 0, 0)

RECURSIVE getVisibleSizesLoop(_, _, _, _)
getVisibleSizesLoop(buf, sizes, writeIndex, i) ==
    IF i >= buf.count THEN sizes
    ELSE IF At(buf.visibilityMask, i) # 0
         THEN getVisibleSizesLoop(buf,
                  PutF32(sizes, writeIndex, At(buf.data, i * FIELDS_PER_DOT + 7)),
                  writeIndex + 1, i + 1)
         ELSE getVisibleSizesLoop(buf, sizes, writeIndex, i + 1)

\* getVisibleSizes that forgets the mask.
getVisibleSizes_unmasked(buf) == getSizes(buf)

getVisibleSizes(buf) ==
    getVisibleSizesLoop(buf, Zeros(countVisible(buf, 0, 0)), 0, 0)

(***************************************************************************)
(* Configuration, world bounds and Math.random.                            *)
(*                                                                          *)
(* Magnitudes are scaled down: populations of 0..MaxDots entities, a world  *)
(* a few units wide, speeds of a few units per tick.  One unit is the      *)
(* culling epsilon.                                                         *)
(***************************************************************************)
CULL_EPSILON == 1      \* the 0.001 degree of the viewport-change test

CULL_MIN_DOTS == 2     \* the 500 dots below which the per-object path never culls

DEFAULT_CONFIG ==
    [ dotCount                  |-> 2,
      maxSpeed                  |-> 2,
      enableTrails              |-> TRUE,
      trailLength               |-> 2,
      dotSizeMin                |-> 2,
      dotSizeMax                |-> 8,
      enableViewportCulling     |-> TRUE,
      cullingBuffer             |-> 1,
      enableAdaptivePerformance |-> TRUE,
      highPerformanceThreshold  |-> 3 ]

DEFAULT_BOUNDS == [minLng |-> -4, maxLng |-> 4, minLat |-> -2, maxLat |-> 2]

\* Math.random() is a deterministic stream read from an unknown seed: the
\* k-th call of a generation yields RandomStream[k] / RandomSteps.
RandomStream ==
    <<3, 3, 3, 3, 0, 1, 2, 3, 0,
      2, 2, 1, 1, 1, 3, 0, 1, 3,
      0, 0, 0, 0, 2, 0, 3, 2, 2,
      3, 3, 0, 1, 3, 2, 1, 0, 1>>

Seeds == {0, 9, 18, 27}

random(k) == RandomStream[(k % Len(RandomStream)) + 1]

\* Math.random() * (max - min) + min
randomInRange(u, min, max) == (u * (max - min)) \div RandomSteps + min

\* Math.floor(Math.random() * 256)
randomChannel(u) == (u * 256) \div RandomSteps

\* generateRandomDot, reading the stream from position k: lng, lat, vx, vy,
\* id, r, g, b, size.
DRAWS_PER_DOT == 9

generateRandomDot(b, cfg, k) ==
    LET position == <<randomInRange(random(k), b.minLng, b.maxLng),
                      randomInRange(random(k + 1), b.minLat, b.maxLat)>>
        velocity == <<randomInRange(random(k + 2), -cfg.maxSpeed, cfg.maxSpeed),
                      randomInRange(random(k + 3), -cfg.maxSpeed, cfg.maxSpeed)>>
    IN  [ id       |-> k + 4,
          position |-> position,
          velocity |-> velocity,
          color    |-> <<randomChannel(random(k + 5)), randomChannel(random(k + 6)),
                         randomChannel(random(k + 7))>>,
          size     |-> randomInRange(random(k + 8), cfg.dotSizeMin, cfg.dotSizeMax),
          trail    |-> <<position>> ]

\* slice(0, n) in the place of slice(-n): the first n elements are kept.
sliceLast_head(arr, n) ==
    IF n = 0 \/ n >= Len(arr) THEN arr
    ELSE SubSeq(arr, 1, n)

\* Array.prototype.slice(-n) for n >= 0 (slice(-0) is slice(0): the whole array).
sliceLast(arr, n) ==
    IF n = 0 \/ n >= Len(arr) THEN arr
    ELSE SubSeq(arr, Len(arr) - n + 1, Len(arr))

\* updateDotPosition (per-object)
updateDotPosition(dot, b, cfg) ==
    LET x == bounce(dot.position[1] + dot.velocity[1], dot.velocity[1],
                    b.minLng, b.maxLng)
        y == bounce(dot.position[2] + dot.velocity[2], dot.velocity[2],
                    b.minLat, b.maxLat)
        newPosition == <<x[1], y[1]>>
        newTrail == IF cfg.enableTrails
                    THEN sliceLast(Append(dot.trail, newPosition), cfg.trailLength)
                    ELSE <<newPosition>>
    IN  [dot EXCEPT !.position = newPosition,
                    !.velocity = <<x[2], y[2]>>,
                    !.trail = newTrail]

\* The viewport-change test with a tolerance of two epsilons.
boundsChanged_coarse(viewportBounds, last, forceUpdate) ==
    \/ forceUpdate
    \/ last = NULL
    \/ Abs(viewportBounds.minLng - last.minLng) > 2 * CULL_EPSILON
    \/ Abs(viewportBounds.maxLng - last.maxLng) > 2 * CULL_EPSILON
    \/ Abs(viewportBounds.minLat - last.minLat) > 2 * CULL_EPSILON
    \/ Abs(viewportBounds.maxLat - last.maxLat) > 2 * CULL_EPSILON

\* The test of updateViewportCulling (per-object) for a viewport that moved.
boundsChanged(viewportBounds, last, forceUpdate) ==
    \/ forceUpdate
    \/ last = NULL
    \/ Abs(viewportBounds.minLng - last.minLng) > CULL_EPSILON
    \/ Abs(viewportBounds.maxLng - last.maxLng) > CULL_EPSILON
    \/ Abs(viewportBounds.minLat - last.minLat) > CULL_EPSILON
    \/ Abs(viewportBounds.maxLat - last.maxLat) > CULL_EPSILON

\* The filtering loop of updateViewportCulling (per-object).
RECURSIVE cullLoop(_, _, _, _, _, _, _)
cullLoop(ds, minLng, maxLng, minLat, maxLat, visible, i) ==
    IF i >= Len(ds) THEN visible
    ELSE LET dot == ds[i + 1]
         IN  cullLoop(ds, minLng, maxLng, minLat, maxLat,
                      IF inRect(dot.position[1], dot.position[2],
                                minLng, maxLng, minLat, maxLat)
                      THEN Append(visible, dot) ELSE visible,
                      i + 1)

\* updateViewportCulling that filters a population of any size.
updateViewportCulling_alwaysFilters(ds, viewportBounds, last, cfg, forceUpdate) ==
    IF ~cfg.enableViewportCulling
    THEN [visibleDots |-> ds, shouldUpdate |-> FALSE]
    ELSE IF ~boundsChanged(viewportBounds, last, forceUpdate)
    THEN [visibleDots |-> <<>>, shouldUpdate |-> FALSE]
    ELSE [visibleDots |-> cullLoop(ds, viewportBounds.minLng - cfg.cullingBuffer,
                                   viewportBounds.maxLng + cfg.cullingBuffer,
                                   viewportBounds.minLat - cfg.cullingBuffer,
                                   viewportBounds.maxLat + cfg.cullingBuffer, <<>>, 0),
          shouldUpdate |-> TRUE]

\* updateViewportCulling that reports its empty list as an update when the
\* viewport did not move.
updateViewportCulling_emptyUpdate(ds, viewportBounds, last, cfg, forceUpdate) ==
    IF ~cfg.enableViewportCulling
    THEN [visibleDots |-> ds, shouldUpdate |-> FALSE]
    ELSE IF ~boundsChanged(viewportBounds, last, forceUpdate)
    THEN [visibleDots |-> <<>>, shouldUpdate |-> TRUE]
    ELSE IF Len(ds) < CULL_MIN_DOTS
    THEN [visibleDots |-> ds, shouldUpdate |-> TRUE]
    ELSE [visibleDots |-> cullLoop(ds, viewportBounds.minLng - cfg.cullingBuffer,
                                   viewportBounds.maxLng + cfg.cullingBuffer,
                                   viewportBounds.minLat - cfg.cullingBuffer,
                                   viewportBounds.maxLat + cfg.cullingBuffer, <<>>, 0),
          shouldUpdate |-> TRUE]

\* updateViewportCulling (per-object utility): [visibleDots, shouldUpdate]
updateViewportCulling(ds, viewportBounds, last, cfg, forceUpdate) ==
    IF ~cfg.enableViewportCulling
    THEN [visibleDots |-> ds, shouldUpdate |-> FALSE]
    ELSE IF ~boundsChanged(viewportBounds, last, forceUpdate)
    THEN [visibleDots |-> <<>>, shouldUpdate |-> FALSE]
    ELSE IF Len(ds) < CULL_MIN_DOTS
    THEN [visibleDots |-> ds, shouldUpdate |-> TRUE]
    ELSE LET buffer == cfg.cullingBuffer
         IN  [visibleDots |-> cullLoop(ds, viewportBounds.minLng - buffer,
                                       viewportBounds.maxLng + buffer,
                                       viewportBounds.minLat - buffer,
                                       viewportBounds.maxLat + buffer, <<>>, 0),
              shouldUpdate |-> TRUE]

\* generateDotsToBuffer
RECURSIVE generateDotsToBufferLoop(_, _, _, _, _, _)
generateDotsToBufferLoop(count, b, cfg, buf, seed, i) ==
    IF i >= count THEN buf
    ELSE generateDotsToBufferLoop(count, b, cfg,
             setDot(buf, i, generateRandomDot(b, cfg, seed + i * DRAWS_PER_DOT)),
             seed, i + 1)

generateDotsToBuffer(count, b, cfg, buf, seed) ==
    generateDotsToBufferLoop(count, b, cfg, [buf EXCEPT !.count = count], seed, 0)

(***************************************************************************)
(* The store.                                                               *)
(***************************************************************************)
\* The world bounds setBounds is called with, the viewports the camera
\* reports, and the configuration fields updateConfig is called with.
WorldBounds ==
    { DEFAULT_BOUNDS,
      [minLng |-> 3, maxLng |-> 11, minLat |-> 0, maxLat |-> 2] }

Viewports ==
    { [minLng |-> -1, maxLng |-> 2, minLat |-> -1, maxLat |-> 1],
      [minLng |-> -1, maxLng |-> 3, minLat |-> -1, maxLat |-> 1],
      [minLng |-> 2, maxLng |-> 9, minLat |-> 0, maxLat |-> 2] }

ConfigPatches ==
    { <<"dotCount", n>> : n \in 0..MaxDots }
    \cup { <<"enableTrails", v>> : v \in BOOLEAN }
    \cup { <<"maxSpeed", 2>>, <<"maxSpeed", 4>> }
    \cup { <<"enableViewportCulling", v>> : v \in BOOLEAN }

\* The population updateDots advances: the buffer rows in high-performance
\* mode, the dots array otherwise.
BufferMode == useHighPerformanceMode /\ dotBuffer # NULL

ActiveCount == IF BufferMode THEN dotBuffer.count ELSE Len(dots)

ActivePosition(i) ==
    IF BufferMode
    THEN <<At(dotBuffer.data, (i - 1) * FIELDS_PER_DOT),
           At(dotBuffer.data, (i - 1) * FIELDS_PER_DOT + 1)>>
    ELSE dots[i].position

ActiveVelocity(i) ==
    IF BufferMode
    THEN <<At(dotBuffer.data, (i - 1) * FIELDS_PER_DOT + 2),
           At(dotBuffer.data, (i - 1) * FIELDS_PER_DOT + 3)>>
    ELSE dots[i].velocity

\* What lastOp remembers of the population before a tick.
Snapshot ==
    [i \in 1..ActiveCount |->
        [position |-> ActivePosition(i), velocity |-> ActiveVelocity(i)]]

\* The dependency list of the icon layer effect.  config.updateInterval and
\* getBinaryData are in the list too: the store action is one function for
\* the life of the store and no modelled control changes the interval.
IconEffectDeps == <<layerType, isRunning, useHighPerformanceMode>>

\* The hook after its first render: the store's config has no layerType
\* (undefined, which is neither 'icons' nor 'text'), the effect has run once
\* for the dependencies of that render and has started nothing.
HookInit ==
    /\ layerType = "undefined"
    /\ iconLayer = NULL
    /\ iconPromises = {}
    /\ iconEffect = [deps |-> IconEffectDeps, runs |-> 0, run |-> 0]

Init ==
    /\ dots = <<>>
    /\ visibleDots = <<>>
    /\ dotBuffer = NULL
    /\ useHighPerformanceMode = FALSE
    /\ isRunning = FALSE
    /\ config = DEFAULT_CONFIG
    /\ bounds = DEFAULT_BOUNDS
    /\ lastViewportBounds = NULL
    /\ totalDots = 0
    /\ visibleDotsCount = 0
    /\ cullingEnabled = TRUE
    /\ ticks = 0
    /\ hist = <<>>
    /\ steady = FALSE
    /\ lastOp = [name |-> "init"]
    /\ HookInit

\* generateDots(count), drawing from the stream at seed: the new dots array.
newDots(count, seed) ==
    [i \in 1..count |-> generateRandomDot(bounds, config, seed + (i - 1) * DRAWS_PER_DOT)]

startTest ==
    \E seed \in Seeds :
        LET useHighPerf == config.enableAdaptivePerformance
                           /\ config.dotCount >= config.highPerformanceThreshold
        IN  /\ isRunning' = TRUE
            /\ useHighPerformanceMode' = useHighPerf
            /\ IF useHighPerf
               THEN LET buf == generateDotsToBuffer(
                                   config.dotCount, bounds, config,
                                   NewDotDataBuffer(config.dotCount,
                                       IF config.enableTrails THEN config.trailLength
                                       ELSE 1),
                                   seed)
                    IN  /\ dotBuffer' = buf
                        /\ totalDots' = buf.count
                        /\ visibleDotsCount' = buf.count
                        /\ UNCHANGED <<dots, visibleDots>>
                        /\ hist' = [i \in 1..buf.count |->
                                       <<getDot(buf, i - 1).position>>]
               ELSE LET nd == newDots(config.dotCount, seed)
                    IN  /\ dotBuffer' = NULL
                        /\ dots' = nd
                        /\ totalDots' = Len(nd)
                        /\ visibleDots' = nd
                        /\ visibleDotsCount' = Len(nd)
                        /\ hist' = [i \in 1..Len(nd) |-> <<nd[i].position>>]
            /\ ticks' = 0
            /\ steady' = config.enableTrails
            /\ lastOp' = [name |-> "startTest"]
            /\ UNCHANGED hookVars
            /\ UNCHANGED <<config, bounds, lastViewportBounds, cullingEnabled>>

\* What lastOp remembers of the state stopTest was called in.
StopSnapshot ==
    [ isRunning |-> isRunning,
      buffer    |-> BufferMode,
      totalDots |-> totalDots,
      dots      |-> Len(dots),
      viewport  |-> lastViewportBounds # NULL ]

\* stopTest that forgets the cached viewport.
stopTest_keepsViewport ==
    /\ isRunning' = FALSE
    /\ dots' = <<>>
    /\ visibleDots' = <<>>
    /\ dotBuffer' = NULL
    /\ useHighPerformanceMode' = FALSE
    /\ totalDots' = 0
    /\ visibleDotsCount' = 0
    /\ ticks' = 0
    /\ hist' = <<>>
    /\ steady' = FALSE
    /\ lastOp' = [name |-> "stopTest", before |-> StopSnapshot]
    /\ UNCHANGED hookVars
    /\ UNCHANGED <<config, bounds, cullingEnabled, lastViewportBounds>>

\* stopTest that leaves the buffer and the mode flag behind.
stopTest_keepsBuffer ==
    /\ isRunning' = FALSE
    /\ dots' = <<>>
    /\ visibleDots' = <<>>
    /\ totalDots' = 0
    /\ visibleDotsCount' = 0
    /\ lastViewportBounds' = NULL
    /\ ticks' = 0
    /\ hist' = <<>>
    /\ steady' = FALSE
    /\ lastOp' = [name |-> "stopTest", before |-> StopSnapshot]
    /\ UNCHANGED hookVars
    /\ UNCHANGED <<config, bounds, cullingEnabled, dotBuffer, useHighPerformanceMode>>

stopTest ==
    /\ isRunning' = FALSE
    /\ dots' = <<>>
    /\ visibleDots' = <<>>
    /\ dotBuffer' = NULL
    /\ useHighPerformanceMode' = FALSE
    /\ totalDots' = 0
    /\ visibleDotsCount' = 0
    /\ lastViewportBounds' = NULL
    /\ ticks' = 0
    /\ hist' = <<>>
    /\ steady' = FALSE
    /\ lastOp' = [name |-> "stopTest", before |-> StopSnapshot]
    /\ UNCHANGED hookVars
    /\ UNCHANGED <<config, bounds, cullingEnabled>>

\* updateDots, high-performance branch: the loop over the rows.
RECURSIVE updateAllRows(_, _, _, _)
updateAllRows(buf, b, maxSpeed, i) ==
    IF i >= buf.count THEN buf
    ELSE updateAllRows(DotDataBuffer_updateDotPosition(buf, i, b, maxSpeed),
                       b, maxSpeed, i + 1)

\* updateDots that culls the dots array it read instead of the one it built.
updateDots_cullsBeforeMove ==
    /\ ticks < MaxTicks
    /\ IF BufferMode
       THEN LET moved == updateAllRows(dotBuffer, bounds, config.maxSpeed, 0)
                culled == IF config.enableViewportCulling /\ lastViewportBounds # NULL
                          THEN updateVisibilityMask(moved, lastViewportBounds,
                                                    config.cullingBuffer)
                          ELSE [buf |-> moved, visibleCount |-> moved.count]
            IN  /\ dotBuffer' = culled.buf
                /\ totalDots' = moved.count
                /\ visibleDotsCount' = culled.visibleCount
                /\ hist' = [i \in 1..moved.count |->
                               <<getDot(moved, i - 1).position>> \o hist[i]]
                /\ UNCHANGED <<dots, visibleDots>>
       ELSE LET updatedDots == [i \in 1..Len(dots) |->
                                   updateDotPosition(dots[i], bounds, config)]
                newVisibleDots ==
                    IF config.enableViewportCulling /\ lastViewportBounds # NULL
                    THEN updateViewportCulling(dots, lastViewportBounds,
                                               lastViewportBounds, config,
                                               TRUE).visibleDots
                    ELSE updatedDots
            IN  /\ dots' = updatedDots
                /\ totalDots' = Len(updatedDots)
                /\ visibleDots' = newVisibleDots
                /\ visibleDotsCount' = Len(newVisibleDots)
                /\ hist' = [i \in 1..Len(updatedDots) |->
                               <<updatedDots[i].position>> \o hist[i]]
                /\ UNCHANGED dotBuffer
    /\ ticks' = ticks + 1
    /\ lastOp' = [name |-> "updateDots", before |-> Snapshot]
    /\ UNCHANGED hookVars
    /\ UNCHANGED <<useHighPerformanceMode, isRunning, config, bounds,
                   lastViewportBounds, cullingEnabled, steady>>

updateDots ==
    /\ ticks < MaxTicks
    /\ IF BufferMode
       THEN LET moved == updateAllRows(dotBuffer, bounds, config.maxSpeed, 0)
                culled == IF config.enableViewportCulling /\ lastViewportBounds # NULL
                          THEN updateVisibilityMask(moved, lastViewportBounds,
                                                    config.cullingBuffer)
                          ELSE [buf |-> moved, visibleCount |-> moved.count]
            IN  /\ dotBuffer' = culled.buf
                /\ totalDots' = moved.count
                /\ visibleDotsCount' = culled.visibleCount
                /\ hist' = [i \in 1..moved.count |->
                               <<getDot(moved, i - 1).position>> \o hist[i]]
                /\ UNCHANGED <<dots, visibleDots>>
       ELSE LET updatedDots == [i \in 1..Len(dots) |->
                                   updateDotPosition(dots[i], bounds, config)]
                newVisibleDots ==
                    IF config.enableViewportCulling /\ lastViewportBounds # NULL
                    THEN updateViewportCulling(updatedDots, lastViewportBounds,
                                               lastViewportBounds, config,
                                               TRUE).visibleDots
                    ELSE updatedDots
            IN  /\ dots' = updatedDots
                /\ totalDots' = Len(updatedDots)
                /\ visibleDots' = newVisibleDots
                /\ visibleDotsCount' = Len(newVisibleDots)
                /\ hist' = [i \in 1..Len(updatedDots) |->
                               <<updatedDots[i].position>> \o hist[i]]
                /\ UNCHANGED dotBuffer
    /\ ticks' = ticks + 1
    /\ lastOp' = [name |-> "updateDots", before |-> Snapshot]
    /\ UNCHANGED hookVars
    /\ UNCHANGED <<useHighPerformanceMode, isRunning, config, bounds,
                   lastViewportBounds, cullingEnabled, steady>>

generateDots(count) ==
    \E seed \in Seeds :
        LET nd == newDots(count, seed)
        IN  /\ dots' = nd
            /\ totalDots' = Len(nd)
            /\ visibleDots' = nd
            /\ visibleDotsCount' = Len(nd)
            /\ IF BufferMode
               THEN UNCHANGED <<ticks, hist, steady>>
               ELSE /\ ticks' = 0
                    /\ hist' = [i \in 1..Len(nd) |-> <<nd[i].position>>]
                    /\ steady' = config.enableTrails
            /\ lastOp' = [name |-> "generateDots"]
            /\ UNCHANGED hookVars
            /\ UNCHANGED <<dotBuffer, useHighPerformanceMode, isRunning, config,
                           bounds, lastViewportBounds, cullingEnabled>>

updateConfig(field, value) ==
    /\ config' = [config EXCEPT ![field] = value]
    /\ steady' = (steady /\ (field \in {"enableTrails", "trailLength"}
                                => config[field] = value))
    /\ lastOp' = [name |-> "updateConfig"]
    /\ UNCHANGED hookVars
    /\ UNCHANGED <<dots, visibleDots, dotBuffer, useHighPerformanceMode, isRunning,
                   bounds, lastViewportBounds, totalDots, visibleDotsCount,
                   cullingEnabled, ticks, hist>>

setBounds(newBounds) ==
    /\ bounds' = newBounds
    /\ lastOp' = [name |-> "setBounds"]
    /\ UNCHANGED hookVars
    /\ UNCHANGED <<dots, visibleDots, dotBuffer, useHighPerformanceMode, isRunning,
                   config, lastViewportBounds, totalDots, visibleDotsCount,
                   cullingEnabled, ticks, hist, steady>>

\* updateViewportCulling (store action)
store_updateViewportCulling(viewportBounds) ==
    /\ IF BufferMode
       THEN LET r == updateVisibilityMask(dotBuffer, viewportBounds,
                                          config.cullingBuffer)
            IN  /\ dotBuffer' = r.buf
                /\ visibleDotsCount' = r.visibleCount
                /\ lastViewportBounds' = viewportBounds
                /\ UNCHANGED visibleDots
       ELSE LET r == updateViewportCulling(dots, viewportBounds, lastViewportBounds,
                                           config, FALSE)
            IN  IF r.shouldUpdate
                THEN /\ visibleDots' = r.visibleDots
                     /\ visibleDotsCount' = Len(r.visibleDots)
                     /\ lastViewportBounds' = viewportBounds
                     /\ UNCHANGED dotBuffer
                ELSE UNCHANGED <<visibleDots, visibleDotsCount, lastViewportBounds,
                                 dotBuffer>>
    /\ lastOp' = [name |-> "updateViewportCulling",
                  viewport |-> viewportBounds,
                  again |-> (lastOp.name = "updateViewportCulling"
                             /\ lastOp.viewport = viewportBounds)]
    /\ UNCHANGED hookVars
    /\ UNCHANGED <<dots, useHighPerformanceMode, isRunning, config, bounds,
                   totalDots, cullingEnabled, ticks, hist, steady>>

\* getBinaryData reads the store and changes nothing: the returned arrays.
getBinaryData ==
    IF useHighPerformanceMode /\ dotBuffer # NULL
    THEN IF config.enableViewportCulling
         THEN [ positions |-> getVisiblePositions(dotBuffer),
                colors    |-> getVisibleColors(dotBuffer),
                sizes     |-> getVisibleSizes(dotBuffer) ]
         ELSE [ positions |-> getPositions(dotBuffer),
                colors    |-> getColors(dotBuffer),
                sizes     |-> getSizes(dotBuffer) ]
    ELSE [positions |-> <<>>, colors |-> <<>>, sizes |-> <<>>]

(***************************************************************************)
(* The application around the store: the controls, the animation loop and   *)
(* the effects of the map component are the store's only callers.           *)
(***************************************************************************)
\* The Start and Stop buttons (disabled={isRunning}, disabled={!isRunning}).
StartButton == ~isRunning /\ startTest

StopButton == isRunning /\ stopTest

\* The configuration controls, all disabled while a run is active.
ConfigControl(field, value) == ~isRunning /\ updateConfig(field, value)

\* The setInterval of the animation loop effect, alive while isRunning.
AnimationLoop == isRunning /\ updateDots

\* The effect handing the world bounds to the store.
BoundsEffect(b) == ~isRunning /\ setBounds(b)

\* useViewportCulling: the effect that follows the camera.
ViewportCullingEffect(v) ==
    isRunning /\ config.enableViewportCulling /\ store_updateViewportCulling(v)

Next ==
    \/ StartButton
    \/ StopButton
    \/ AnimationLoop
    \/ \E p \in ConfigPatches : ConfigControl(p[1], p[2])
    \/ \E b \in WorldBounds : BoundsEffect(b)
    \/ \E v \in Viewports : ViewportCullingEffect(v)

Spec == Init /\ [][Next]_vars

(***************************************************************************)
(* One entity under the advance step: the store as startTest leaves it      *)
(* with a population of one, for every position, velocity and world bound   *)
(* of the sets below instead of the ones Math.random happens to draw.       *)
(***************************************************************************)
StepLngs == -5..13

StepLats == {-2, 0, 2}

StepVxs == {-3, -1, 0, 1, 2}

StepVys == {-1, 0, 1}

StepBounds ==
    WorldBounds \cup { [minLng |-> 9, maxLng |-> 9, minLat |-> 0, maxLat |-> 0] }

StepEntity(lng, lat, vx, vy) ==
    [ id       |-> 0,
      position |-> <<lng, lat>>,
      velocity |-> <<vx, vy>>,
      color    |-> <<0, 128, 255>>,
      size     |-> 2,
      trail    |-> << <<lng, lat>> >> ]

InitStep ==
    \E hp \in BOOLEAN, b \in StepBounds, lng \in StepLngs, lat \in StepLats,
       vx \in StepVxs, vy \in StepVys :
        LET e == StepEntity(lng, lat, vx, vy)
            cfg == [DEFAULT_CONFIG EXCEPT !.dotCount = 1,
                                          !.highPerformanceThreshold =
                                              IF hp THEN 1 ELSE 3]
            buf == [setDot(NewDotDataBuffer(1, cfg.trailLength), 0, e)
                        EXCEPT !.count = 1]
        IN  /\ isRunning = TRUE
            /\ useHighPerformanceMode = hp
            /\ dotBuffer = IF hp THEN buf ELSE NULL
            /\ dots = IF hp THEN <<>> ELSE <<e>>
            /\ visibleDots = IF hp THEN <<>> ELSE <<e>>
            /\ config = cfg
            /\ bounds = b
            /\ lastViewportBounds = NULL
            /\ totalDots = 1
            /\ visibleDotsCount = 1
            /\ cullingEnabled = TRUE
            /\ ticks = 0
            /\ hist = << <<IF hp THEN getDot(buf, 0).position ELSE e.position>> >>
            /\ steady = TRUE
            /\ lastOp = [name |-> "startTest"]
            /\ HookInit

NextStep == AnimationLoop

SpecStep == InitStep /\ [][NextStep]_vars

(***************************************************************************)
(* Claims                                                                   *)
(***************************************************************************)
Axes == {1, 2}

Lower(axis) == IF axis = 1 THEN bounds.minLng ELSE bounds.minLat

Upper(axis) == IF axis = 1 THEN bounds.maxLng ELSE bounds.maxLat

Clamped(t, lo, hi) == IF t < lo THEN lo ELSE IF t > hi THEN hi ELSE t

\* The tentative coordinate of entity i on an axis in the tick just made.
Tentative(i, axis) ==
    lastOp.before[i].position[axis] + lastOp.before[i].velocity[axis]

AfterTick == lastOp.name = "updateDots"

\* C1 as stated: after one advance step every entity's coordinate on each axis
\* is (old coordinate + velocity) clamped into [lower, upper], in the buffer
\* and in the per-object population alike, and so lies inside the world bounds.
C1_AsStated ==
    AfterTick =>
        \A i \in 1..ActiveCount : \A axis \in Axes :
            /\ ActivePosition(i)[axis]
                   = Clamped(Tentative(i, axis), Lower(axis), Upper(axis))
            /\ ActivePosition(i)[axis] >= Lower(axis)
            /\ ActivePosition(i)[axis] <= Upper(axis)

\* C1, amended: after one advance step the coordinate is (old coordinate +
\* velocity) clamped into [lower, upper] in the per-object population, and that
\* value rounded to the nearest Float32 in the buffer; it lies in
\* [lower, upper], respectively between the two bounds rounded to Float32.
C1_ClampedThenStored ==
    AfterTick =>
        \A i \in 1..ActiveCount : \A axis \in Axes :
            LET c == Clamped(Tentative(i, axis), Lower(axis), Upper(axis))
                p == ActivePosition(i)[axis]
            IN  IF BufferMode
                THEN /\ p = Fround(c)
                     /\ p >= Fround(Lower(axis))
                     /\ p <= Fround(Upper(axis))
                ELSE /\ p = c
                     /\ p >= Lower(axis)
                     /\ p <= Upper(axis)

\* C1 witness: a buffer entity whose tentative coordinate overshot the upper
\* longitude bound and was brought back, the stored value being a rounded one.
C1_Witness ==
    /\ AfterTick
    /\ BufferMode
    /\ ActiveCount >= 1
    /\ Tentative(1, 1) > Upper(1)
    /\ ActivePosition(1)[1] = Fround(Upper(1))
    /\ ActivePosition(1)[1] # Upper(1)

\* C2 as stated: the velocity sign flips on exactly the axes where the
\* tentative position exceeded (went beyond) the bound of that axis.
C2_AsStated ==
    AfterTick =>
        \A i \in 1..ActiveCount : \A axis \in Axes :
            LET t == Tentative(i, axis)
                exceeded == t < Lower(axis) \/ t > Upper(axis)
            IN  ActiveVelocity(i)[axis]
                    = IF exceeded THEN -lastOp.before[i].velocity[axis]
                      ELSE lastOp.before[i].velocity[axis]

\* C2, amended: the velocity component of an axis is negated exactly when the
\* tentative position reached or exceeded a bound of that axis (<= lower or
\* >= upper), each axis decided on its own.
C2_FlipsWhenReached ==
    AfterTick =>
        \A i \in 1..ActiveCount : \A axis \in Axes :
            LET t == Tentative(i, axis)
                reached == t <= Lower(axis) \/ t >= Upper(axis)
            IN  ActiveVelocity(i)[axis]
                    = IF reached THEN -lastOp.before[i].velocity[axis]
                      ELSE lastOp.before[i].velocity[axis]

\* C2 witness: a corner hit, both components non-zero and both negated in the
\* same tick.
C2_Witness ==
    /\ AfterTick
    /\ ActiveCount >= 1
    /\ Tentative(1, 1) > Upper(1)
    /\ Tentative(1, 2) < Lower(2)
    /\ lastOp.before[1].velocity[1] # 0
    /\ lastOp.before[1].velocity[2] # 0
    /\ ActiveVelocity(1)[1] = -lastOp.before[1].velocity[1]
    /\ ActiveVelocity(1)[2] = -lastOp.before[1].velocity[2]

\* The trail of entity i as the claims read it: getDot(i - 1).trail in buffer
\* mode, dot.trail in the per-object population.
ActiveTrail(i) ==
    IF BufferMode THEN getDot(dotBuffer, i - 1).trail ELSE dots[i].trail

\* The first n elements of a sequence (all of it when it is shorter).
Take(seq, n) == SubSeq(seq, 1, Min(n, Len(seq)))

\* C3: with trails enabled from the start of the run, after t ticks every
\* entity's trail (getDot in buffer mode, dot.trail per object) has length
\* min(t + 1, trailLength), hence never more than trailLength.
C3_TrailLength ==
    (isRunning /\ steady) =>
        \A i \in 1..ActiveCount :
            /\ Len(ActiveTrail(i)) = Min(ticks + 1, config.trailLength)
            /\ Len(ActiveTrail(i)) <= config.trailLength

\* C4: with trailLength = K and trails enabled, after more than K ticks every
\* entity's trail is exactly its K most recent positions, most recent first,
\* in the buffer and in the per-object population alike.
C4_MostRecentFirst ==
    (isRunning /\ steady /\ ticks > config.trailLength) =>
        \A i \in 1..ActiveCount :
            ActiveTrail(i) = Take(hist[i], config.trailLength)

\* The mask bit of the active row of entity i (row i - 1).
MaskBit(i) == At(dotBuffer.visibilityMask, i - 1)

\* The margin-expanded rectangle of a viewport, both edges of each axis
\* included.
InExpanded(pos, viewport, margin) ==
    /\ viewport.minLng - margin <= pos[1]
    /\ pos[1] <= viewport.maxLng + margin
    /\ viewport.minLat - margin <= pos[2]
    /\ pos[2] <= viewport.maxLat + margin

\* updateVisibilityMask was the last thing to touch the buffer: the store's
\* culling action ran it, or the tick ran it after moving the rows.
MaskJustUpdated ==
    /\ BufferMode
    /\ lastViewportBounds # NULL
    /\ \/ lastOp.name = "updateViewportCulling"
       \/ AfterTick /\ config.enableViewportCulling

\* C5: immediately after updateVisibilityMask(viewport, margin) the mask bit
\* of every active row is 1 exactly when the row's position lies in the
\* margin-expanded viewport, edges included, and the returned number is the
\* number of bits set.
C5_MaskIffInside ==
    MaskJustUpdated =>
        /\ \A i \in 1..ActiveCount :
               MaskBit(i) = IF InExpanded(ActivePosition(i), lastViewportBounds,
                                          config.cullingBuffer)
                            THEN 1 ELSE 0
        /\ visibleDotsCount
               = Cardinality({i \in 1..ActiveCount : MaskBit(i) = 1})

\* C5 witness: after a mask update one entity sits exactly on the expanded
\* upper longitude edge and is visible, another lies outside and is not.
C5_Witness ==
    /\ MaskJustUpdated
    /\ \E i, j \in 1..ActiveCount :
           /\ ActivePosition(i)[1] = lastViewportBounds.maxLng + config.cullingBuffer
           /\ MaskBit(i) = 1
           /\ ~InExpanded(ActivePosition(j), lastViewportBounds, config.cullingBuffer)
           /\ MaskBit(j) = 0

\* The rows whose mask bit is set, in ascending row order.
VisibleRows ==
    SelectSeq([i \in 1..dotBuffer.count |-> i - 1],
              LAMBDA r : At(dotBuffer.visibilityMask, r) # 0)

Field(r, f) == At(dotBuffer.data, r * FIELDS_PER_DOT + f)

\* C6: the three visible extractions hold one entity per set mask bit among the
\* rows below count, and the k-th position, colour and size are those of the
\* k-th row, in ascending order, whose bit is set.
C6_ExtractionAligned ==
    BufferMode =>
        LET n == Len(VisibleRows)
            pos == getVisiblePositions(dotBuffer)
            col == getVisibleColors(dotBuffer)
            siz == getVisibleSizes(dotBuffer)
        IN  /\ n = Cardinality({r \in 0..(dotBuffer.count - 1) :
                                    At(dotBuffer.visibilityMask, r) # 0})
            /\ Len(pos) = 3 * n
            /\ Len(col) = 4 * n
            /\ Len(siz) = n
            /\ \A k \in 1..n :
                   LET r == VisibleRows[k]
                   IN  /\ pos[3 * k - 2] = Field(r, 0)
                       /\ pos[3 * k - 1] = Field(r, 1)
                       /\ pos[3 * k] = 0
                       /\ col[4 * k - 3] = Field(r, 4) % 256
                       /\ col[4 * k - 2] = Field(r, 5) % 256
                       /\ col[4 * k - 1] = Field(r, 6) % 256
                       /\ col[4 * k] = 255
                       /\ siz[k] = Field(r, 7)

\* C6 witness: a hidden row lies before a visible one, so the first extracted
\* entity is not the first row.
C6_Witness ==
    /\ BufferMode
    /\ dotBuffer.count >= 2
    /\ At(dotBuffer.visibilityMask, 0) = 0
    /\ Len(VisibleRows) >= 1
    /\ Len(getVisiblePositions(dotBuffer)) = 3 * Len(VisibleRows)
    /\ Field(0, 7) # Field(VisibleRows[1], 7)

(***************************************************************************)
(* The buffer on its own: setDot on any row with any entity of the sets     *)
(* below, RtWrites times at most, so that a row is also written over.       *)
(***************************************************************************)
RtWrites == 2

RtPoints == { <<0, 0>>, <<9, 2>> }

RtTrails ==
    {<<>>} \cup { <<p>> : p \in RtPoints } \cup { <<p, q>> : p, q \in RtPoints }

RtEntities ==
    { [ id |-> 0, position |-> <<1, 0>>, velocity |-> <<-1, 2>>,
        color |-> <<64, 128, 192>>, size |-> 2, trail |-> t ] : t \in RtTrails }
    \cup
    { [ id |-> 1, position |-> <<9, -11>>, velocity |-> <<13, 0>>,
        color |-> <<0, 32, 224>>, size |-> 7, trail |-> t ] : t \in RtTrails }

InitRoundTrip ==
    /\ dots = <<>>
    /\ visibleDots = <<>>
    /\ dotBuffer = NewDotDataBuffer(MaxDots, DEFAULT_CONFIG.trailLength)
    /\ useHighPerformanceMode = TRUE
    /\ isRunning = FALSE
    /\ config = DEFAULT_CONFIG
    /\ bounds = DEFAULT_BOUNDS
    /\ lastViewportBounds = NULL
    /\ totalDots = 0
    /\ visibleDotsCount = 0
    /\ cullingEnabled = TRUE
    /\ ticks = 0
    /\ hist = <<>>
    /\ steady = FALSE
    /\ lastOp = [name |-> "init"]
    /\ HookInit

\* dotBuffer.setDot(index, dot); ticks counts the writes.
SetDot(index, dot) ==
    /\ ticks < RtWrites
    /\ dotBuffer' = setDot(dotBuffer, index, dot)
    /\ ticks' = ticks + 1
    /\ lastOp' = [name |-> "setDot", index |-> index, dot |-> dot]
    /\ UNCHANGED hookVars
    /\ UNCHANGED <<dots, visibleDots, useHighPerformanceMode, isRunning, config,
                   bounds, lastViewportBounds, totalDots, visibleDotsCount,
                   cullingEnabled, hist, steady>>

NextRoundTrip ==
    \E index \in 0..(MaxDots - 1), dot \in RtEntities : SetDot(index, dot)

SpecRoundTrip == InitRoundTrip /\ [][NextRoundTrip]_vars

AfterSetDot == lastOp.name = "setDot"

NotOrigin(p) == p # <<0, 0>>

FroundAll(seq) == [k \in 1..Len(seq) |-> Fround(seq[k])]

\* C7 as stated: getDot(i) after setDot(i, e) returns e's position, velocity,
\* colour and size exactly, and e's trail in order without its (0, 0) points.
C7_AsStated ==
    AfterSetDot =>
        LET e == lastOp.dot
            g == getDot(dotBuffer, lastOp.index)
        IN  /\ g.position = e.position
            /\ g.velocity = e.velocity
            /\ g.color = e.color
            /\ g.size = e.size
            /\ g.trail = SelectSeq(e.trail, NotOrigin)

\* C7, amended: getDot(i) after setDot(i, e) returns e's position, velocity,
\* colour and size each rounded to the nearest Float32 (so exactly when e's
\* numbers are Float32 values), and e's trail points rounded the same way, in
\* the same order, without the points that read (0, 0) after rounding.
C7_RoundTripFloat32 ==
    AfterSetDot =>
        LET e == lastOp.dot
            g == getDot(dotBuffer, lastOp.index)
        IN  /\ g.position = FroundAll(e.position)
            /\ g.velocity = FroundAll(e.velocity)
            /\ g.color = FroundAll(e.color)
            /\ g.size = Fround(e.size)
            /\ g.trail = SelectSeq([k \in 1..Len(e.trail) |-> FroundAll(e.trail[k])],
                                   NotOrigin)

\* C7 witness: a row holding a two-point trail is written over with an entity
\* whose position is no Float32 value and whose one-point trail is (0, 0):
\* the position comes back rounded and the trail empty.
C7_Witness ==
    /\ AfterSetDot
    /\ ticks = 2
    /\ lastOp.dot.position = <<9, -11>>
    /\ lastOp.dot.trail = << <<0, 0>> >>
    /\ getDot(dotBuffer, lastOp.index).position # lastOp.dot.position
    /\ getDot(dotBuffer, lastOp.index).trail = <<>>

\* What a culling update decides: the mask, the visible set and its count.
CullState ==
    << IF dotBuffer = NULL THEN <<>> ELSE dotBuffer.visibilityMask,
       visibleDots, visibleDotsCount >>

\* C8: a culling update that directly follows a culling update with the same
\* viewport leaves the mask, the visible set and the visible count as the
\* first one left them.
C8_RepeatedCullUnchanged ==
    [][ (lastOp'.name = "updateViewportCulling" /\ lastOp'.again)
            => CullState' = CullState ]_vars

\* C8 witness: the same viewport was culled twice in a row, and the culling
\* hides some entities and shows others.
C8_Witness ==
    /\ lastOp.name = "updateViewportCulling"
    /\ lastOp.again
    /\ visibleDotsCount > 0
    /\ visibleDotsCount < ActiveCount

\* The arrays getBinaryData is to return for the entities in rows: positions
\* (lng, lat, 0), colours (r, g, b, 255) and sizes, one entry per entity.
ExpectedArrays(entities) ==
    LET n == Len(entities)
    IN  [ positions |-> [k \in 1..(3 * n) |->
                            IF k % 3 = 0 THEN 0
                            ELSE entities[(k + 2) \div 3].position[((k - 1) % 3) + 1]],
          colors    |-> [k \in 1..(4 * n) |->
                            IF k % 4 = 0 THEN 255
                            ELSE entities[(k + 3) \div 4].color[((k - 1) % 4) + 1] % 256],
          sizes     |-> [k \in 1..n |-> entities[k].size] ]

\* The active population and its visible part, whichever path holds them.
ActiveEntities ==
    IF BufferMode THEN [i \in 1..dotBuffer.count |-> getDot(dotBuffer, i - 1)]
    ELSE dots

ActiveVisibleEntities ==
    IF BufferMode
    THEN [k \in 1..Len(VisibleRows) |-> getDot(dotBuffer, VisibleRows[k])]
    ELSE visibleDots

Empty3 == [positions |-> <<>>, colors |-> <<>>, sizes |-> <<>>]

\* C10: getBinaryData returns three empty arrays when no run is active (before
\* a start, after a stop) and when the population is empty.
C10_EmptyWhenIdleOrEmpty ==
    (~isRunning \/ ActiveCount = 0) => getBinaryData = Empty3

\* C10 witness: a run has just been stopped and the store is idle again.
C10_Witness ==
    /\ lastOp.name = "stopTest"
    /\ ~isRunning
    /\ getBinaryData = Empty3

(***************************************************************************)
(* The store on its own: every action of the store called in any order, as  *)
(* any component holding the store may call it, running or not.  The world  *)
(* bounds stay those of the initial state and a run is followed for         *)
(* ApiTicks ticks.                                                          *)
(***************************************************************************)
ApiTicks == 1

ApiCounts == {2}

ApiPatches == { <<"dotCount", 3>>, <<"enableViewportCulling", FALSE>> }

ApiViewports == { [minLng |-> -1, maxLng |-> 2, minLat |-> -1, maxLat |-> 1] }

NextApi ==
    \/ startTest
    \/ stopTest
    \/ ticks < ApiTicks /\ updateDots
    \/ \E n \in ApiCounts : generateDots(n)
    \/ \E p \in ApiPatches : updateConfig(p[1], p[2])
    \/ \E v \in ApiViewports : store_updateViewportCulling(v)

SpecApi == Init /\ [][NextApi]_vars

\* C11: after stopTest, in whatever state it was called, the run is stopped
\* and nothing of it is left: isRunning is false, dots and visibleDots are
\* empty, dotBuffer is null, totalDots and visibleDotsCount are 0 and
\* lastViewportBounds is null.
C11_StopLeavesNothing ==
    lastOp.name = "stopTest" =>
        /\ ~isRunning
        /\ dots = <<>>
        /\ visibleDots = <<>>
        /\ dotBuffer = NULL
        /\ totalDots = 0
        /\ visibleDotsCount = 0
        /\ lastViewportBounds = NULL

\* C11 witness: stopTest was called on a run in buffer mode with entities, a
\* cached viewport and a stale per-object population, and all of it is gone.
C11_Witness ==
    /\ lastOp.name = "stopTest"
    /\ lastOp.before.isRunning
    /\ lastOp.before.buffer
    /\ lastOp.before.totalDots > 0
    /\ lastOp.before.dots > 0
    /\ lastOp.before.viewport
    /\ dotBuffer = NULL
    /\ dots = <<>>
    /\ lastViewportBounds = NULL

\* What a run consists of, as the claims about the driver read it.
RunState ==
    <<dots, visibleDots, dotBuffer, totalDots, visibleDotsCount,
      lastViewportBounds, isRunning>>

\* C12: updateDots called while the driver is not running is a no-op: it moves
\* no entity and leaves the population, totalDots, visibleDotsCount, the
\* visibility state, lastViewportBounds and isRunning as they were.
C12_TickWhileStoppedIsNoOp ==
    [][ (~isRunning /\ lastOp'.name = "updateDots") => RunState' = RunState ]_vars

ActiveSize(i) == IF BufferMode THEN getDot(dotBuffer, i - 1).size ELSE dots[i].size

\* C13: after startTest, in whatever state it was called, isRunning is true and
\* the active population has exactly config.dotCount entities (totalDots too),
\* each inside the world bounds, each velocity component within
\* [-maxSpeed, maxSpeed], each size within [dotSizeMin, dotSizeMax], and each
\* trail made of exactly the initial position.
C13_StartPostcondition ==
    lastOp.name = "startTest" =>
        /\ isRunning
        /\ ActiveCount = config.dotCount
        /\ totalDots = config.dotCount
        /\ \A i \in 1..ActiveCount :
               /\ \A axis \in Axes :
                      /\ Lower(axis) <= ActivePosition(i)[axis]
                      /\ ActivePosition(i)[axis] <= Upper(axis)
                      /\ -config.maxSpeed <= ActiveVelocity(i)[axis]
                      /\ ActiveVelocity(i)[axis] <= config.maxSpeed
               /\ config.dotSizeMin <= ActiveSize(i)
               /\ ActiveSize(i) <= config.dotSizeMax
               /\ ActiveTrail(i) = <<ActivePosition(i)>>

(***************************************************************************)
(* The callbacks of a run on the JavaScript event loop.  The setInterval    *)
(* callback of the animation loop calls updateDots, the viewport effect     *)
(* calls updateViewportCulling and the renderer calls getBinaryData.  A     *)
(* callback is taken from the queue when the call stack is empty, or when   *)
(* the callback in progress is suspended at an await.  updateDots is        *)
(* followed row by row; lastOp holds the position of the call in progress:  *)
(* [name |-> "updateDots.loop", row |-> the next row to advance].           *)
(***************************************************************************)
\* updateDots written as an async function that awaits between two rows.
updateDots_async == TRUE

\* Whether updateDots gives up the call stack between two rows of its loop: it
\* is a plain synchronous function without an await, so it does not.
updateDots_awaitsInLoop == FALSE

InLoop == lastOp.name = "updateDots.loop"

\* The event loop may start a callback.
CanDispatch == ~InLoop \/ updateDots_awaitsInLoop

InitLoop ==
    \E seed \in Seeds, viewport \in {NULL} \cup Viewports :
        LET cfg == [DEFAULT_CONFIG EXCEPT !.dotCount = MaxDots]
            buf == generateDotsToBuffer(MaxDots, DEFAULT_BOUNDS, cfg,
                       NewDotDataBuffer(MaxDots, cfg.trailLength), seed)
            cull == IF viewport = NULL
                    THEN [buf |-> buf, visibleCount |-> buf.count]
                    ELSE updateVisibilityMask(buf, viewport, cfg.cullingBuffer)
        IN  /\ isRunning = TRUE
            /\ useHighPerformanceMode = TRUE
            /\ dotBuffer = cull.buf
            /\ dots = <<>>
            /\ visibleDots = <<>>
            /\ config = cfg
            /\ bounds = DEFAULT_BOUNDS
            /\ lastViewportBounds = viewport
            /\ totalDots = buf.count
            /\ visibleDotsCount = cull.visibleCount
            /\ cullingEnabled = TRUE
            /\ ticks = 0
            /\ hist = [i \in 1..buf.count |-> <<getDot(buf, i - 1).position>>]
            /\ steady = TRUE
            /\ lastOp = [name |-> "startTest"]
            /\ HookInit

\* The interval fires: updateDots is entered and reads the store.
TimerFires ==
    /\ CanDispatch
    /\ isRunning
    /\ BufferMode
    /\ ticks < MaxTicks
    /\ lastOp' = [name |-> "updateDots.loop", row |-> 0, before |-> Snapshot]
    /\ UNCHANGED hookVars
    /\ UNCHANGED <<dots, visibleDots, dotBuffer, useHighPerformanceMode, isRunning,
                   config, bounds, lastViewportBounds, totalDots, visibleDotsCount,
                   cullingEnabled, ticks, hist, steady>>

\* One iteration of the loop of updateDots over the rows.
TickRow ==
    /\ InLoop
    /\ lastOp.row < dotBuffer.count
    /\ dotBuffer' = DotDataBuffer_updateDotPosition(dotBuffer, lastOp.row, bounds,
                                                    config.maxSpeed)
    /\ hist' = [hist EXCEPT ![lastOp.row + 1] =
                   <<getDot(dotBuffer', lastOp.row).position>> \o @]
    /\ lastOp' = [lastOp EXCEPT !.row = @ + 1]
    /\ UNCHANGED hookVars
    /\ UNCHANGED <<dots, visibleDots, useHighPerformanceMode, isRunning, config,
                   bounds, lastViewportBounds, totalDots, visibleDotsCount,
                   cullingEnabled, ticks, steady>>

\* After the loop: the mask is refreshed and the counts are written.
TickFinish ==
    /\ InLoop
    /\ lastOp.row >= dotBuffer.count
    /\ LET culled == IF config.enableViewportCulling /\ lastViewportBounds # NULL
                     THEN updateVisibilityMask(dotBuffer, lastViewportBounds,
                                               config.cullingBuffer)
                     ELSE [buf |-> dotBuffer, visibleCount |-> dotBuffer.count]
       IN  /\ dotBuffer' = culled.buf
           /\ totalDots' = dotBuffer.count
           /\ visibleDotsCount' = culled.visibleCount
    /\ ticks' = ticks + 1
    /\ lastOp' = [name |-> "updateDots", before |-> lastOp.before]
    /\ UNCHANGED hookVars
    /\ UNCHANGED <<dots, visibleDots, useHighPerformanceMode, isRunning, config,
                   bounds, lastViewportBounds, cullingEnabled, hist, steady>>

\* The viewport effect runs: useViewportCulling calls the store.
CullingCallback(v) ==
    /\ CanDispatch
    /\ ViewportCullingEffect(v)

\* The renderer reads the arrays; lastOp keeps what it was handed.
RenderCallback ==
    /\ CanDispatch
    /\ isRunning
    /\ useHighPerformanceMode
    /\ lastOp' = [name |-> "getBinaryData", data |-> getBinaryData]
    /\ UNCHANGED hookVars
    /\ UNCHANGED <<dots, visibleDots, dotBuffer, useHighPerformanceMode, isRunning,
                   config, bounds, lastViewportBounds, totalDots, visibleDotsCount,
                   cullingEnabled, ticks, hist, steady>>

NextLoop ==
    \/ TimerFires
    \/ TickRow
    \/ TickFinish
    \/ \E v \in Viewports : CullingCallback(v)
    \/ RenderCallback

SpecLoop == InitLoop /\ [][NextLoop]_vars

\* Every row has been advanced as often as every other, and the counts are
\* those of the buffer.
AllRowsAdvancedAlike ==
    /\ \A i \in 1..ActiveCount : Len(hist[i]) = ticks + 1
    /\ \A i \in 1..ActiveCount : ActivePosition(i) = hist[i][1]
    /\ totalDots = ActiveCount

\* C14: ticks never overlap: whenever a timer-driven updateDots, a culling call
\* or an extraction starts, the previous updateDots has run to completion, so
\* that no operation sees a buffer of which only some rows were advanced.
C14_TicksNeverOverlap ==
    \/ InLoop /\ lastOp.row > 0
    \/ AllRowsAdvancedAlike

\* C14 witness: the renderer extracted the arrays right after a tick in which
\* an entity moved, and was handed the position of every row after that tick.
C14_Witness ==
    /\ lastOp.name = "getBinaryData"
    /\ ticks >= 2
    /\ Len(lastOp.data.positions) = 3 * ActiveCount
    /\ \A i \in 1..ActiveCount :
           /\ lastOp.data.positions[3 * i - 2] = hist[i][1][1]
           /\ lastOp.data.positions[3 * i - 1] = hist[i][1][2]
    /\ \E i \in 1..ActiveCount : hist[i][1] # hist[i][2]

\* A configuration the driver is to reject.
InvalidConfig ==
    \/ config.dotCount <= 0
    \/ config.dotSizeMin > config.dotSizeMax
    \/ config.trailLength <= 0

\* C15: startTest with a configuration of non-positive population size,
\* dotSizeMin > dotSizeMax or non-positive trailLength fails: the driver stays
\* stopped with no population.
C15_InvalidConfigRejected ==
    (lastOp.name = "startTest" /\ InvalidConfig) =>
        /\ ~isRunning
        /\ dotBuffer = NULL
        /\ dots = <<>>

\* C16: getPositions, getColors and getSizes cover exactly the rows 0..count-1
\* in row order: 3 * count position values with every third one 0, 4 * count
\* colour values with every alpha 255, count sizes, entry i read from row i.
C16_FullExtraction ==
    BufferMode =>
        LET n == dotBuffer.count
            pos == getPositions(dotBuffer)
            col == getColors(dotBuffer)
            siz == getSizes(dotBuffer)
        IN  /\ Len(pos) = 3 * n
            /\ Len(col) = 4 * n
            /\ Len(siz) = n
            /\ \A r \in 0..(n - 1) :
                   /\ pos[3 * r + 1] = Field(r, 0)
                   /\ pos[3 * r + 2] = Field(r, 1)
                   /\ pos[3 * r + 3] = 0
                   /\ col[4 * r + 1] = Field(r, 4) % 256
                   /\ col[4 * r + 2] = Field(r, 5) % 256
                   /\ col[4 * r + 3] = Field(r, 6) % 256
                   /\ col[4 * r + 4] = 255
                   /\ siz[r + 1] = Field(r, 7)

\* C16 witness: a buffer of three rows after a tick, with some rows hidden by
\* the mask: the full extraction still has an entry for each of the rows.
C16_Witness ==
    /\ BufferMode
    /\ AfterTick
    /\ dotBuffer.count = 3
    /\ Len(VisibleRows) < 3
    /\ Len(getSizes(dotBuffer)) = 3
    /\ getSizes(dotBuffer)[3] = Field(2, 7)
    /\ Field(2, 7) # Field(2, 6)

\* C17: useHighPerformanceMode is true in every reachable state of the store:
\* initially, after startTest for any dot count, and after stopTest.
C17_AlwaysHighPerformance == useHighPerformanceMode = TRUE

\* C18: the culling metric shown by the debug panel tells whether culling is
\* active: after any sequence of updateConfig, startTest, updateDots and
\* stopTest calls cullingEnabled equals config.enableViewportCulling.
C18_MetricFollowsConfig == cullingEnabled = config.enableViewportCulling

\* The number of active entities inside the cached viewport expanded by the
\* culling margin.
InsideCount ==
    Cardinality({i \in 1..ActiveCount :
                    InExpanded(ActivePosition(i), lastViewportBounds,
                               config.cullingBuffer)})

CullingOnTick == config.enableViewportCulling /\ lastViewportBounds # NULL

\* C19 as stated: after a tick of a run with culling enabled and a cached
\* viewport, visibleDotsCount is the number of active entities whose new
\* position lies in the cached viewport expanded by cullingBuffer; with culling
\* disabled or no cached viewport it is totalDots.
C19_AsStated ==
    (AfterTick /\ isRunning) =>
        visibleDotsCount = IF CullingOnTick THEN InsideCount ELSE totalDots

\* C19, amended: as stated in buffer mode and for a per-object population of
\* at least the culling minimum (500); a smaller per-object population is
\* passed through whole, visibleDotsCount being totalDots after the tick.
C19_VisibleCountAfterTick ==
    (AfterTick /\ isRunning) =>
        /\ totalDots = ActiveCount
        /\ visibleDotsCount =
               IF CullingOnTick /\ (BufferMode \/ ActiveCount >= CULL_MIN_DOTS)
               THEN InsideCount ELSE totalDots
        /\ ~BufferMode => Len(visibleDots) = visibleDotsCount

\* C19 witness: a per-object population below the culling minimum after a tick
\* with culling enabled and a viewport cached: its one entity lies outside the
\* expanded viewport and is counted visible all the same.
C19_Witness ==
    /\ AfterTick
    /\ isRunning
    /\ ~BufferMode
    /\ CullingOnTick
    /\ ActiveCount = 1
    /\ InsideCount = 0
    /\ visibleDotsCount = 1

\* No edge of the viewport is further than the epsilon from the edge of the
\* viewport of the last computation.
WithinEpsilon(viewport, last) ==
    /\ last # NULL
    /\ Abs(viewport.minLng - last.minLng) <= CULL_EPSILON
    /\ Abs(viewport.maxLng - last.maxLng) <= CULL_EPSILON
    /\ Abs(viewport.minLat - last.minLat) <= CULL_EPSILON
    /\ Abs(viewport.maxLat - last.maxLat) <= CULL_EPSILON

\* C20: the updateViewportCulling action recomputes only for a viewport that
\* differs from the last computed one by more than the epsilon on some edge
\* (or when none was computed yet): otherwise the call leaves the visible set,
\* visibleDotsCount and lastViewportBounds unchanged; when it recomputes it
\* stores the new viewport as lastViewportBounds.
C20_RecomputeOnlyBeyondEpsilon ==
    [][ lastOp'.name = "updateViewportCulling" =>
            IF WithinEpsilon(lastOp'.viewport, lastViewportBounds)
            THEN /\ CullState' = CullState
                 /\ lastViewportBounds' = lastViewportBounds
            ELSE lastViewportBounds' = lastOp'.viewport ]_vars

(***************************************************************************)
(* The application with the mode threshold configured: the configuration    *)
(* is set before a run starts, here the threshold of the bulk path and the  *)
(* population size, so that a run of either path has a population below or  *)
(* at the culling minimum; the camera moves in steps of one epsilon.        *)
(***************************************************************************)
ThresholdPatches == { <<"highPerformanceThreshold", 1>>, <<"dotCount", 1>> }

CameraViewports ==
    { [minLng |-> -1, maxLng |-> m, minLat |-> -1, maxLat |-> 1] : m \in 2..4 }

NextViewport ==
    \/ StartButton
    \/ StopButton
    \/ AnimationLoop
    \/ \E p \in ThresholdPatches : ConfigControl(p[1], p[2])
    \/ \E v \in CameraViewports : ViewportCullingEffect(v)

SpecViewport == Init /\ [][NextViewport]_vars

\* A culling computation produced this state: the culling action computed
\* against the viewport it was called with, or a tick refreshed the
\* visibility against the cached viewport.
CullingComputed ==
    /\ isRunning
    /\ config.enableViewportCulling
    /\ lastViewportBounds # NULL
    /\ \/ AfterTick
       \/ lastOp.name = "updateViewportCulling" /\ lastOp.viewport = lastViewportBounds

\* The active entities inside the cached viewport expanded by the margin, in
\* population order.
InsideEntities ==
    SelectSeq(ActiveEntities,
              LAMBDA e : InExpanded(e.position, lastViewportBounds,
                                    config.cullingBuffer))

\* C21: with culling enabled a population of fewer than 500 entities is never
\* culled: every culling computation, on a viewport change or forced by a
\* tick, yields the whole population as visible and visibleDotsCount =
\* totalDots; for a population of 500 or more the visible set is exactly the
\* entities inside the margin-expanded viewport.
C21_SmallPopulationNeverCulled ==
    CullingComputed =>
        IF ActiveCount < CULL_MIN_DOTS
        THEN /\ ActiveVisibleEntities = ActiveEntities
             /\ visibleDotsCount = totalDots
        ELSE /\ ActiveVisibleEntities = InsideEntities
             /\ visibleDotsCount = Len(InsideEntities)

\* C22: in every reachable state of the store, whatever the order in which
\* startTest, stopTest, updateDots, generateDots, updateConfig and
\* updateViewportCulling are called, 0 <= visibleDotsCount <= totalDots.
C22_VisibleWithinTotal ==
    /\ 0 <= visibleDotsCount
    /\ visibleDotsCount <= totalDots

\* C23: in buffer mode with culling enabled, in every state of a run the
\* visibleDotsCount metric is the number of entities in the arrays
\* getBinaryData returns (sizes.length), the states between startTest and the
\* first updateViewportCulling call included.
C23_MetricMatchesExtraction ==
    (isRunning /\ BufferMode /\ config.enableViewportCulling) =>
        visibleDotsCount = Len(getBinaryData.sizes)

(***************************************************************************)
(* The two paths side by side: the same generated entities held by a        *)
(* DotDataBuffer and by a dots array, under the same world bounds and       *)
(* configuration, every tick advancing each by its branch of updateDots.    *)
(* The buffer has one row more than its count: the row of an entity of a    *)
(* larger population generated before count was reassigned.  No viewport    *)
(* is cached.  hist follows the per-object positions and lastOp remembers   *)
(* the entities as generateRandomDot returned them.                         *)
(***************************************************************************)
PairSpeeds == {2, 9, 11}

InitPair ==
    \E k \in 0..(Len(RandomStream) - 1), b \in WorldBounds, speed \in PairSpeeds :
        LET cfg == [DEFAULT_CONFIG EXCEPT !.maxSpeed = speed]
            es == [i \in 1..cfg.dotCount |->
                      generateRandomDot(b, cfg, k + (i - 1) * DRAWS_PER_DOT)]
            buf == [generateDotsToBuffer(cfg.dotCount + 1, b, cfg,
                        NewDotDataBuffer(cfg.dotCount + 1, cfg.trailLength), k)
                        EXCEPT !.count = cfg.dotCount]
        IN  /\ isRunning = TRUE
            /\ useHighPerformanceMode = TRUE
            /\ dotBuffer = buf
            /\ dots = es
            /\ visibleDots = es
            /\ config = cfg
            /\ bounds = b
            /\ lastViewportBounds = NULL
            /\ totalDots = Len(es)
            /\ visibleDotsCount = Len(es)
            /\ cullingEnabled = TRUE
            /\ ticks = 0
            /\ hist = [i \in 1..Len(es) |-> <<es[i].position>>]
            /\ steady = TRUE
            /\ lastOp = [name |-> "generateDots", generated |-> es]
            /\ HookInit

\* updateDots on both populations: the loop over the rows of the buffer and
\* the map over the dots array, then the counts, which both branches set to
\* the whole population when no viewport is cached.
TickPair ==
    /\ ticks < MaxTicks
    /\ lastViewportBounds = NULL
    /\ LET moved == updateAllRows(dotBuffer, bounds, config.maxSpeed, 0)
           updatedDots == [i \in 1..Len(dots) |->
                              updateDotPosition(dots[i], bounds, config)]
       IN  /\ dotBuffer' = moved
           /\ dots' = updatedDots
           /\ totalDots' = moved.count
           /\ visibleDots' = updatedDots
           /\ visibleDotsCount' = Len(updatedDots)
           /\ hist' = [i \in 1..Len(updatedDots) |->
                          <<updatedDots[i].position>> \o hist[i]]
    /\ ticks' = ticks + 1
    /\ lastOp' = [name |-> "updateDots", generated |-> lastOp.generated]
    /\ UNCHANGED hookVars
    /\ UNCHANGED <<useHighPerformanceMode, isRunning, config, bounds,
                   lastViewportBounds, cullingEnabled, steady>>

NextPair == TickPair

SpecPair == InitPair /\ [][NextPair]_vars

Reverse(seq) == [k \in 1..Len(seq) |-> seq[Len(seq) + 1 - k]]

\* A number a Float32Array element holds exactly.
Representable(x) == Fround(x) = x

\* Nothing of entity i has been rounded by the buffer so far: its generated
\* velocity and every position it has had are exactly representable.
ExactSoFar(i) ==
    /\ \A axis \in Axes : Representable(lastOp.generated[i].velocity[axis])
    /\ \A k \in 1..Len(hist[i]) : \A axis \in Axes : Representable(hist[i][k][axis])

\* C24 as stated: after any number of ticks from the same entities and world
\* bounds, entity i has the same position and velocity in the buffer and in
\* the dots array, and its buffer trail is its per-object trail in reverse
\* order.
C24_AsStated ==
    ticks >= 1 =>
      \A i \in 1..Len(dots) :
        /\ getDot(dotBuffer, i - 1).position = dots[i].position
        /\ getDot(dotBuffer, i - 1).velocity = dots[i].velocity
        /\ getDot(dotBuffer, i - 1).trail = Reverse(dots[i].trail)

\* C24, amended: the two paths agree as far as Float32 storage is exact.
\* While the generated velocity of entity i and every position it has had are
\* exactly representable as Float32, entity i has the same position and
\* velocity in both, and the trail getDot returns is the per-object trail in
\* reverse order without its (0, 0) points.
C24_EquivalentWhileExact ==
    \A i \in 1..Len(dots) :
        ExactSoFar(i) =>
            /\ dotBuffer.count = Len(dots)
            /\ getDot(dotBuffer, i - 1).position = dots[i].position
            /\ getDot(dotBuffer, i - 1).velocity = dots[i].velocity
            /\ getDot(dotBuffer, i - 1).trail
                   = SelectSeq(Reverse(dots[i].trail), NotOrigin)

\* C24 witness: after two ticks an entity that was reflected, none of its
\* values rounded, is at the same place in both paths with a trail of two
\* different points, the buffer holding the later one first.
C24_Witness ==
    /\ ticks >= 2
    /\ \E i \in 1..Len(dots) :
           /\ ExactSoFar(i)
           /\ dots[i].velocity # lastOp.generated[i].velocity
           /\ getDot(dotBuffer, i - 1).position = dots[i].position
           /\ Len(dots[i].trail) = 2
           /\ dots[i].trail[1] # dots[i].trail[2]
           /\ getDot(dotBuffer, i - 1).trail = <<dots[i].trail[2], dots[i].trail[1]>>

\* The elements of a typed array from index n on.
From(arr, n) == SubSeq(arr, n + 1, Len(arr))

\* The colour and size fields of row r.
ColorAndSize(buf, r) ==
    <<At(buf.data, r * FIELDS_PER_DOT + 4), At(buf.data, r * FIELDS_PER_DOT + 5),
      At(buf.data, r * FIELDS_PER_DOT + 6), At(buf.data, r * FIELDS_PER_DOT + 7)>>

\* C25: a tick changes only position, velocity and trail: updateDots leaves
\* the colour and the size of every active entity as they were, in the buffer
\* and in the dots array, it leaves the number of active entities (the buffer
\* count, dots.length and totalDots) as it was, and it writes no row at an
\* index >= count.
C25_TickChangesOnlyMotion ==
    [][ lastOp'.name = "updateDots" =>
            /\ totalDots' = totalDots
            /\ Len(dots') = Len(dots)
            /\ \A i \in 1..Len(dots) :
                   /\ dots'[i].id = dots[i].id
                   /\ dots'[i].color = dots[i].color
                   /\ dots'[i].size = dots[i].size
            /\ dotBuffer # NULL =>
                   /\ dotBuffer' # NULL
                   /\ dotBuffer'.count = dotBuffer.count
                   /\ \A r \in 0..(dotBuffer.count - 1) :
                          ColorAndSize(dotBuffer', r) = ColorAndSize(dotBuffer, r)
                   /\ From(dotBuffer'.data, dotBuffer.count * FIELDS_PER_DOT)
                          = From(dotBuffer.data, dotBuffer.count * FIELDS_PER_DOT)
                   /\ From(dotBuffer'.trailData,
                           dotBuffer.count * dotBuffer.maxTrailLength
                               * TRAIL_FIELDS_PER_DOT)
                          = From(dotBuffer.trailData,
                                 dotBuffer.count * dotBuffer.maxTrailLength
                                     * TRAIL_FIELDS_PER_DOT)
                   /\ From(dotBuffer'.visibilityMask, dotBuffer.count)
                          = From(dotBuffer.visibilityMask, dotBuffer.count) ]_vars

\* The velocity component of entity i on an axis as the buffer holds it.
BufferVelocity(i, axis) == At(dotBuffer.data, (i - 1) * FIELDS_PER_DOT + 1 + axis)

\* C26 as stated: for every entity and every axis the absolute value of the
\* velocity component is, after any number of ticks, what it was when the
\* entity was generated, in the dots array and in the buffer, and so it is at
\* most the maxSpeed the entity was generated with.
C26_AsStated ==
    ticks >= 1 =>
        \A i \in 1..Len(dots) : \A axis \in Axes :
            LET g == lastOp.generated[i].velocity[axis]
            IN  /\ Abs(dots[i].velocity[axis]) = Abs(g)
                /\ Abs(dots[i].velocity[axis]) <= config.maxSpeed
                /\ Abs(BufferVelocity(i, axis)) = Abs(g)
                /\ Abs(BufferVelocity(i, axis)) <= config.maxSpeed

\* C26, amended: reflection only changes the sign of a velocity component.
\* After any number of ticks its absolute value is that of the generated
\* component in the dots array, and that of the generated component rounded
\* to Float32 in the buffer; it is at most maxSpeed in the dots array and at
\* most maxSpeed rounded to Float32 in the buffer.
C26_SpeedPreserved ==
    \A i \in 1..Len(dots) : \A axis \in Axes :
        LET g == lastOp.generated[i].velocity[axis]
        IN  /\ Abs(dots[i].velocity[axis]) = Abs(g)
            /\ Abs(dots[i].velocity[axis]) <= config.maxSpeed
            /\ Abs(BufferVelocity(i, axis)) = Abs(Fround(g))
            /\ Abs(BufferVelocity(i, axis)) <= Fround(config.maxSpeed)

\* C26 witness: an entity has been reflected on the longitude axis in both
\* paths; the buffer holds the negated rounded component, which is not the
\* generated one and is larger than maxSpeed.
C26_Witness ==
    /\ ticks >= 1
    /\ \E i \in 1..Len(dots) :
           LET g == lastOp.generated[i].velocity[1]
           IN  /\ g # 0
               /\ Fround(g) # g
               /\ dots[i].velocity[1] = -g
               /\ BufferVelocity(i, 1) = -Fround(g)
               /\ Abs(BufferVelocity(i, 1)) > config.maxSpeed

\* a is b with some of its elements left out, the others in their order.
RECURSIVE IsSubsequence(_, _)
IsSubsequence(a, b) ==
    IF a = <<>> THEN TRUE
    ELSE IF b = <<>> THEN FALSE
    ELSE IF Head(a) = Head(b) THEN IsSubsequence(Tail(a), Tail(b))
    ELSE IsSubsequence(a, Tail(b))

\* C27: in per-object mode, in every reachable state visibleDots is an
\* order-preserving subsequence of the current dots array, every visible entry
\* being one of the current dot objects with its current position, and
\* visibleDotsCount is visibleDots.length.
C27_VisibleDotsAreCurrent ==
    ~BufferMode =>
        /\ IsSubsequence(visibleDots, dots)
        /\ visibleDotsCount = Len(visibleDots)

\* C27 witness: after a tick of a per-object run with a cached viewport the
\* first of two dots is culled and the second, which the tick has moved, is
\* the one visible entry, at its new position.
C27_Witness ==
    /\ ~BufferMode
    /\ isRunning
    /\ AfterTick
    /\ CullingOnTick
    /\ Len(dots) = 2
    /\ visibleDots = <<dots[2]>>
    /\ visibleDotsCount = 1
    /\ dots[2].position # lastOp.before[2].position

\* C28: in per-object mode with culling enabled, right after an
\* updateViewportCulling call with viewport v the cached lastViewportBounds
\* differs from v by at most the epsilon (0.001) on every edge, whatever calls
\* came before: moves below the epsilon do not add up to a stale cached
\* viewport.
C28_CachedViewportFollows ==
    (lastOp.name = "updateViewportCulling" /\ ~BufferMode
         /\ config.enableViewportCulling) =>
        WithinEpsilon(lastOp.viewport, lastViewportBounds)

\* C28 witness: a per-object run after a culling call whose viewport is one
\* epsilon away from the cached one: the call computed nothing and the cached
\* viewport is still the earlier one.
C28_Witness ==
    /\ lastOp.name = "updateViewportCulling"
    /\ ~BufferMode
    /\ isRunning
    /\ config.enableViewportCulling
    /\ Len(dots) >= 1
    /\ lastViewportBounds # NULL
    /\ lastViewportBounds # lastOp.viewport
    /\ Abs(lastViewportBounds.maxLng - lastOp.viewport.maxLng) = CULL_EPSILON

(***************************************************************************)
(* The layers hook.  usePerformanceTestLayers keeps the icon layer in a     *)
(* state cell that an effect fills from a promise: the effect runs after a  *)
(* render whose dependencies changed, createHighPerformanceIconLayer       *)
(* settles whenever the icon image has loaded, and the memo picks the layer *)
(* to display.  SpecLayers is the application with a layer type selector:   *)
(* a click, a control change or a timer callback is handled once the        *)
(* effects of the previous render have run, a promise settles at any time.  *)
(***************************************************************************)
MaxEffects == 4     \* runs of the icon layer effect that are followed

LayerTypes == {"dots", "icons"}

LayerPatches == { <<"dotCount", 3>>, <<"enableViewportCulling", FALSE>> }

storeVars == <<dots, visibleDots, dotBuffer, useHighPerformanceMode, isRunning, config,
               bounds, lastViewportBounds, totalDots, visibleDotsCount,
               cullingEnabled, ticks, hist, steady, lastOp>>

\* createHighPerformanceIconLayer: one datum per point of the binary data it
\* was called with, under the fixed layer id.
createHighPerformanceIconLayer(binaryData) ==
    LET numPoints == Len(binaryData.positions) \div 3
    IN  [ id   |-> "performance-test-icons-binary",
          data |-> [i \in 1..numPoints |->
                       [ position |-> << At(binaryData.positions, (i - 1) * 3),
                                         At(binaryData.positions, (i - 1) * 3 + 1),
                                         At(binaryData.positions, (i - 1) * 3 + 2) >>,
                         color    |-> << At(binaryData.colors, (i - 1) * 4),
                                         At(binaryData.colors, (i - 1) * 4 + 1),
                                         At(binaryData.colors, (i - 1) * 4 + 2),
                                         At(binaryData.colors, (i - 1) * 4 + 3) >>,
                         size     |-> At(binaryData.sizes, i - 1),
                         icon     |-> "test-icon" ]] ]

\* The effects of the last render have run.
EffectsFlushed == iconEffect.deps = IconEffectDeps

\* The icon layer effect, run for changed dependencies.  A promise remembers
\* the binary data it was started with and, as history, the run it was
\* started in.
IconLayerEffect ==
    /\ iconEffect.deps # IconEffectDeps
    /\ iconEffect.runs < MaxEffects
    /\ LET run == IF isRunning /\ ~iconEffect.deps[2]
                  THEN iconEffect.run + 1 ELSE iconEffect.run
       IN  /\ iconEffect' = [deps |-> IconEffectDeps,
                             runs |-> iconEffect.runs + 1,
                             run  |-> run]
           /\ IF layerType = "icons" /\ isRunning /\ useHighPerformanceMode
              THEN LET binaryData == getBinaryData
                   IN  IF Len(binaryData.positions) > 0
                       THEN /\ iconPromises' = iconPromises
                                   \cup {[binaryData |-> binaryData, run |-> run]}
                            /\ UNCHANGED iconLayer
                       ELSE UNCHANGED <<iconLayer, iconPromises>>
              ELSE /\ iconLayer' = NULL
                   /\ UNCHANGED iconPromises
    /\ UNCHANGED layerType
    /\ UNCHANGED storeVars

\* .then(layer => setIconLayer(layer))
IconPromiseResolves(p) ==
    /\ p \in iconPromises
    /\ iconPromises' = iconPromises \ {p}
    /\ LET layer == createHighPerformanceIconLayer(p.binaryData)
       IN  iconLayer' = [id |-> layer.id, data |-> layer.data, run |-> p.run]
    /\ UNCHANGED <<layerType, iconEffect>>
    /\ UNCHANGED storeVars

\* .catch(error => setIconLayer(null)): the icon atlas could not be drawn.
IconPromiseRejects(p) ==
    /\ p \in iconPromises
    /\ iconPromises' = iconPromises \ {p}
    /\ iconLayer' = NULL
    /\ UNCHANGED <<layerType, iconEffect>>
    /\ UNCHANGED storeVars

\* The hook is rendered with another config.layerType.
LayerTypeControl(t) ==
    /\ EffectsFlushed
    /\ layerType # t
    /\ layerType' = t
    /\ UNCHANGED <<iconLayer, iconPromises, iconEffect>>
    /\ UNCHANGED storeVars

\* The useMemo of the hook: the layers it returns when it computes them in
\* this state.
layers ==
    IF ~isRunning THEN <<>>
    ELSE IF useHighPerformanceMode
         THEN LET binaryData == getBinaryData
              IN  IF Len(binaryData.positions) = 0 THEN <<>>
                  ELSE CASE layerType = "icons" ->
                                IF iconLayer # NULL THEN <<iconLayer>> ELSE <<>>
                         [] layerType = "text" ->
                                << [id |-> "performance-test-text-binary"] >>
                         [] OTHER ->
                                << [id |-> "performance-test-dots-binary"] >>
         ELSE <<>>

NextLayers ==
    \/ EffectsFlushed /\ StartButton
    \/ EffectsFlushed /\ StopButton
    \/ EffectsFlushed /\ AnimationLoop
    \/ \E p \in LayerPatches : EffectsFlushed /\ ConfigControl(p[1], p[2])
    \/ \E t \in LayerTypes : LayerTypeControl(t)
    \/ \E v \in ApiViewports : ViewportCullingEffect(v)
    \/ IconLayerEffect
    \/ \E p \in iconPromises : IconPromiseResolves(p)
    \/ \E p \in iconPromises : IconPromiseRejects(p)

SpecLayers == Init /\ [][NextLayers]_vars

\* The memo returns the cached icon layer.
IconLayerDisplayed == iconLayer # NULL /\ layers = <<iconLayer>>

\* C29: the cached icon layer never outlives the conditions it was built
\* for.  Once the effects of the last render have run, a stopped run or a
\* layer type other than 'icons' leaves the cached icon layer null, whatever
\* promise settles afterwards, and an icon layer on display was started in
\* the run that displays it.
C29_IconLayerWithinConditions ==
    /\ (EffectsFlushed /\ ~(isRunning /\ layerType = "icons")) => iconLayer = NULL
    /\ (EffectsFlushed /\ IconLayerDisplayed) => iconLayer.run = iconEffect.run

====
